---- MODULE Spec2Model ----
(***************************************************************************)
(* embassy-net UdpSocket (src/embassy-net/src/udp.rs): the async wrapper   *)
(* around the smoltcp UDP socket that lives in the shared network stack.   *)
(*                                                                         *)
(* The executor is single-threaded and cooperative: one task at a time     *)
(* runs a poll (one Attempt) or a synchronous call to its end.  A call of  *)
(* with_socket is modelled in the steps of its body: Stack::with takes the *)
(* borrow and the closure runs against the socket, stack.wake() notifies   *)
(* the driver, the borrow is released and the result returned.             *)
(***************************************************************************)
EXTENDS Integers, Sequences, FiniteSets, TLC

\* ------------------------------------------------------------------ bounds
\* The buffers task 1 hands to new(): rx metadata records, tx metadata
\* records, tx payload bytes.
RxMetaCap  == 2
TxMetaCap  == 2
TxPayCap   == 2

\* Tasks, each owning at most one UdpSocket at a time; the engine's socket
\* table has a row for each.
Tasks    == {1, 2}
Handles  == {0, 1}
NoTask   == 0
NoHandle == 2

\* The buffers task t hands to new(): task 2 hands the shortest there are,
\* one metadata record and one payload byte each way.
RxMetaLen(t) == IF t = 1 THEN RxMetaCap ELSE 1
TxMetaLen(t) == IF t = 1 THEN TxMetaCap ELSE 1
TxPayLen(t)  == IF t = 1 THEN TxPayCap ELSE 1

\* ------------------------------------------------------------------ inputs
\* Datagrams the driver may deliver: payload bytes and source endpoint.
Datagrams == { [data |-> <<7>>,    ep |-> 1, bad |-> FALSE],
               [data |-> <<8, 9>>, ep |-> 2, bad |-> FALSE] }
\* A receive record the engine cannot hand out (malformed engine state):
\* it makes can_recv() true while the engine's recv_slice reports an error.
BadRecord == [data |-> <<>>, ep |-> 0, bad |-> TRUE]
RxRecords == Datagrams \cup {BadRecord}

\* Payloads passed to send_slice: one byte, and one byte more than the
\* transmit byte buffer can ever hold.
OverData == [i \in 1..(TxPayCap + 1) |-> 0]
FullData == [i \in 1..TxPayCap |-> 5]
\* Arguments of send_slice: payload and destination endpoint; endpoint 0 is
\* the unspecified endpoint.  Task 1 sends all of them, task 2 the first two.
SendArgs(t) ==
    { [data |-> <<1>>, ep |-> 1], [data |-> <<1>>, ep |-> 0] } \cup
    IF t = 1 THEN { [data |-> FullData, ep |-> 1], [data |-> OverData, ep |-> 1] }
             ELSE {}
\* Lengths of the caller's output buffer for recv_slice: task 1 has room for
\* every datagram, task 2 for one byte.
BufLens(t) == IF t = 1 THEN {2} ELSE {1}
\* Ports passed to bind: 0 is rejected by the engine.
BindPorts == {0, 1}

Min(a, b) == IF a <= b THEN a ELSE b

RECURSIVE SumLen(_)
SumLen(q) == IF q = <<>> THEN 0 ELSE Len(Head(q).data) + SumLen(Tail(q))

Zeros(n) == [i \in 1..n |-> 0]

\* ------------------------------------------------------- engine socket state
\* One row of the engine's socket table.  buf names the caller's four
\* buffers the row was built over (those of task buf); rxcap, txcap and
\* txpay are their lengths.
FreeRow == [used |-> FALSE, buf |-> NoTask, rxcap |-> 0, txcap |-> 0, txpay |-> 0,
            endpoint |-> 0,
            rx |-> <<>>, tx |-> <<>>, rx_waker |-> NoTask, tx_waker |-> NoTask]

\* SyncUdpSocket::new(UdpSocketBuffer::new(..), UdpSocketBuffer::new(..))
SyncUdpSocket_new(t) ==
    [FreeRow EXCEPT !.used = TRUE, !.buf = t, !.rxcap = RxMetaLen(t),
                    !.txcap = TxMetaLen(t), !.txpay = TxPayLen(t)]

\* Results of the engine's fallible calls.
EngOk(n, ep, buf) == [ok |-> TRUE,  err |-> "none", n |-> n, ep |-> ep, buf |-> buf]
EngErr(e)         == [ok |-> FALSE, err |-> e,      n |-> 0, ep |-> 0,  buf |-> <<>>]

is_open(s)  == s.endpoint # 0
can_recv(s) == s.rx # <<>>
can_send(s) == Len(s.tx) < s.txcap

\* The set of tasks a take-and-wake of the two waker slots wakes.
WakerTargets(s) == {s.rx_waker, s.tx_waker} \ {NoTask}

register_recv_waker(s, t) == [s EXCEPT !.rx_waker = t]
register_send_waker(s, t) == [s EXCEPT !.tx_waker = t]

\* Engine recv_slice: dequeue the head datagram and copy min(len) bytes into
\* the caller's buffer buf.  An empty queue is Exhausted; a record the engine
\* cannot hand out is an error that leaves the queue as it is.
sync_recv_slice(s, buf) ==
    IF s.rx = <<>> THEN [s |-> s, r |-> EngErr("Exhausted")]
    ELSE IF Head(s.rx).bad THEN [s |-> s, r |-> EngErr("Malformed")]
    ELSE LET d == Head(s.rx)
             n == Min(Len(buf), Len(d.data))
         IN [s |-> [s EXCEPT !.rx = Tail(s.rx)],
             r |-> EngOk(n, d.ep,
                         [i \in 1..Len(buf) |-> IF i <= n THEN d.data[i] ELSE buf[i]])]

\* Engine send_slice: Unaddressable when the socket is not bound or the
\* destination is unspecified, Truncated when the payload can never fit,
\* Exhausted when the transmit buffer is currently full.
sync_send_slice(s, data, ep) ==
    IF s.endpoint = 0 \/ ep = 0 THEN [s |-> s, r |-> EngErr("Unaddressable")]
    ELSE IF Len(data) > s.txpay THEN [s |-> s, r |-> EngErr("Truncated")]
    ELSE IF Len(s.tx) >= s.txcap \/ s.txpay - SumLen(s.tx) < Len(data)
         THEN [s |-> s, r |-> EngErr("Exhausted")]
    ELSE [s |-> [s EXCEPT !.tx = Append(s.tx, [data |-> data, ep |-> ep])],
          r |-> EngOk(0, 0, <<>>)]

\* Engine bind: port 0 is Unaddressable, an open socket is Illegal; a
\* successful bind wakes both waker slots.
sync_bind(s, port) ==
    IF port = 0 THEN [s |-> s, r |-> EngErr("Unaddressable"), wake |-> {}]
    ELSE IF is_open(s) THEN [s |-> s, r |-> EngErr("Illegal"), wake |-> {}]
    ELSE [s |-> [s EXCEPT !.endpoint = port, !.rx_waker = NoTask, !.tx_waker = NoTask],
          r |-> EngOk(0, 0, <<>>), wake |-> WakerTargets(s)]

\* Engine close: unbind, reset both buffers, wake both waker slots.
sync_close(s) ==
    [s |-> [s EXCEPT !.endpoint = 0, !.rx = <<>>, !.tx = <<>>,
                     !.rx_waker = NoTask, !.tx_waker = NoTask],
     wake |-> WakerTargets(s)]

\* ------------------------------------------------------------ poll results
Pending == [poll |-> "Pending", ok |-> FALSE, err |-> "none", n |-> 0, ep |-> 0, buf |-> <<>>]
Ready(r) == [poll |-> "Ready", ok |-> r.ok, err |-> r.err, n |-> r.n, ep |-> r.ep, buf |-> r.buf]
NoRes == [poll |-> "None", ok |-> FALSE, err |-> "none", n |-> 0, ep |-> 0, buf |-> <<>>]
\* The engine's fallible call was not made.
NoEng == EngErr("notcalled")

NoArg == [data |-> <<>>, ep |-> 0, buf |-> <<>>]

\* ---------------------------------------------------------------- closures
\* recv_closure with the waker registration of the empty-queue arm left out.
recv_closure_NoRegister(s, t, buf) ==
    IF can_recv(s)
    THEN LET e == sync_recv_slice(s, buf)
         IN IF e.r.ok
            THEN [s |-> e.s, res |-> Ready(e.r), eng |-> e.r, wake |-> {}]
            ELSE [s |-> register_recv_waker(e.s, t), res |-> Pending,
                  eng |-> e.r, wake |-> {}]
    ELSE [s |-> s, res |-> Pending, eng |-> NoEng, wake |-> {}]

\* recv_closure completing with an empty result when nothing is queued.
recv_closure_ReadyEmpty(s, t, buf) ==
    IF can_recv(s)
    THEN LET e == sync_recv_slice(s, buf)
         IN IF e.r.ok
            THEN [s |-> e.s, res |-> Ready(e.r), eng |-> e.r, wake |-> {}]
            ELSE [s |-> register_recv_waker(e.s, t), res |-> Pending,
                  eng |-> e.r, wake |-> {}]
    ELSE [s |-> s, res |-> Ready(EngOk(0, 0, buf)), eng |-> NoEng, wake |-> {}]

\* recv_closure returning the length of the caller's buffer as the byte count.
recv_closure_BufLen(s, t, buf) ==
    IF can_recv(s)
    THEN LET e == sync_recv_slice(s, buf)
         IN IF e.r.ok
            THEN [s |-> e.s, res |-> [Ready(e.r) EXCEPT !.n = Len(buf)],
                  eng |-> e.r, wake |-> {}]
            ELSE [s |-> register_recv_waker(e.s, t), res |-> Pending,
                  eng |-> e.r, wake |-> {}]
    ELSE [s |-> register_recv_waker(s, t), res |-> Pending, eng |-> NoEng, wake |-> {}]

\* recv_closure dropping the datagram it could not hand out before it
\* suspends.
recv_closure_DropOnErr(s, t, buf) ==
    IF can_recv(s)
    THEN LET e == sync_recv_slice(s, buf)
         IN IF e.r.ok
            THEN [s |-> e.s, res |-> Ready(e.r), eng |-> e.r, wake |-> {}]
            ELSE [s |-> register_recv_waker([e.s EXCEPT !.rx = Tail(@)], t),
                  res |-> Pending, eng |-> e.r, wake |-> {}]
    ELSE [s |-> register_recv_waker(s, t), res |-> Pending, eng |-> NoEng, wake |-> {}]

\* recv_closure registering its waker in the send slot.
recv_closure_SendSlot(s, t, buf) ==
    IF can_recv(s)
    THEN LET e == sync_recv_slice(s, buf)
         IN IF e.r.ok
            THEN [s |-> e.s, res |-> Ready(e.r), eng |-> e.r, wake |-> {}]
            ELSE [s |-> register_send_waker(e.s, t), res |-> Pending,
                  eng |-> e.r, wake |-> {}]
    ELSE [s |-> register_send_waker(s, t), res |-> Pending, eng |-> NoEng, wake |-> {}]

\* recv_closure completing with an empty datagram when the engine's receive
\* fails.
recv_closure_ErrReady(s, t, buf) ==
    IF can_recv(s)
    THEN LET e == sync_recv_slice(s, buf)
         IN IF e.r.ok
            THEN [s |-> e.s, res |-> Ready(e.r), eng |-> e.r, wake |-> {}]
            ELSE [s |-> e.s, res |-> Ready(EngOk(0, 0, buf)), eng |-> e.r, wake |-> {}]
    ELSE [s |-> register_recv_waker(s, t), res |-> Pending, eng |-> NoEng, wake |-> {}]

\* The closure recv_slice passes to with_socket; t is the task whose waker
\* cx.waker() is, buf the caller's output buffer.
recv_closure(s, t, buf) ==
    IF can_recv(s)
    THEN LET e == sync_recv_slice(s, buf)
         IN IF e.r.ok
            THEN [s |-> e.s, res |-> Ready(e.r), eng |-> e.r, wake |-> {}]
            ELSE [s |-> register_recv_waker(e.s, t), res |-> Pending,
                  eng |-> e.r, wake |-> {}]
    ELSE [s |-> register_recv_waker(s, t), res |-> Pending, eng |-> NoEng, wake |-> {}]

\* send_closure suspending on Exhausted without registering the send waker.
send_closure_NoRegister(s, t, data, ep) ==
    LET e == sync_send_slice(s, data, ep)
    IN IF e.r.ok
       THEN [s |-> e.s, res |-> Ready(e.r), eng |-> e.r, wake |-> {}]
       ELSE IF e.r.err = "Exhausted"
       THEN [s |-> e.s, res |-> Pending, eng |-> e.r, wake |-> {}]
       ELSE [s |-> e.s, res |-> Ready(e.r), eng |-> e.r, wake |-> {}]

\* send_closure suspending on every error of the engine.
send_closure_Suspends(s, t, data, ep) ==
    LET e == sync_send_slice(s, data, ep)
    IN IF e.r.ok
       THEN [s |-> e.s, res |-> Ready(e.r), eng |-> e.r, wake |-> {}]
       ELSE [s |-> register_send_waker(e.s, t), res |-> Pending, eng |-> e.r, wake |-> {}]

\* send_closure without the Exhausted arm: every error is returned.
send_closure_NoExhaustedArm(s, t, data, ep) ==
    LET e == sync_send_slice(s, data, ep)
    IN [s |-> e.s, res |-> Ready(e.r), eng |-> e.r, wake |-> {}]

\* send_closure handing the datagram to the engine a second time after the
\* engine accepted it.
send_closure_Twice(s, t, data, ep) ==
    LET e == sync_send_slice(s, data, ep)
    IN IF e.r.ok
       THEN [s |-> sync_send_slice(e.s, data, ep).s, res |-> Ready(e.r),
             eng |-> e.r, wake |-> {}]
       ELSE IF e.r.err = "Exhausted"
       THEN [s |-> register_send_waker(e.s, t), res |-> Pending, eng |-> e.r, wake |-> {}]
       ELSE [s |-> e.s, res |-> Ready(e.r), eng |-> e.r, wake |-> {}]

\* The closure send_slice passes to with_socket.
send_closure(s, t, data, ep) ==
    LET e == sync_send_slice(s, data, ep)
    IN IF e.r.ok
       THEN [s |-> e.s, res |-> Ready(e.r), eng |-> e.r, wake |-> {}]
       ELSE IF e.r.err = "Exhausted"
       THEN [s |-> register_send_waker(e.s, t), res |-> Pending, eng |-> e.r, wake |-> {}]
       ELSE [s |-> e.s, res |-> Ready(e.r), eng |-> e.r, wake |-> {}]

\* The closure of bind: the engine's result is the call's result.
bind_closure(s, port) ==
    LET e == sync_bind(s, port)
    IN [s |-> e.s, res |-> Ready(e.r), eng |-> e.r, wake |-> e.wake]

\* A close that does not reach the engine.
close_closure_NoOp(s) ==
    [s |-> s, res |-> Ready(EngOk(0, 0, <<>>)), eng |-> NoEng, wake |-> {}]

\* The closure of close.
close_closure(s) ==
    LET e == sync_close(s)
    IN [s |-> e.s, res |-> Ready(EngOk(0, 0, <<>>)), eng |-> NoEng, wake |-> e.wake]

\* The closure of is_open: the engine's answer, as res.ok.
is_open_closure(s) ==
    [s |-> s, res |-> [Ready(EngOk(0, 0, <<>>)) EXCEPT !.ok = is_open(s)],
     eng |-> NoEng, wake |-> {}]

\* The closure with_socket is given, by operation.
Closure(op, s, t, arg) ==
    CASE op = "recv"    -> recv_closure(s, t, arg.buf)
      [] op = "send"    -> send_closure(s, t, arg.data, arg.ep)
      [] op = "bind"    -> bind_closure(s, arg.ep)
      [] op = "close"   -> close_closure(s)
      [] op = "is_open" -> is_open_closure(s)

\* -------------------------------------------------------------------- state
VARIABLES
    sockets,      \* the engine's socket table: Handles -> row
    tasks,        \* per task: its UdpSocket (alive, handle) and its pending future
    woken,        \* per task: its waker was invoked since its last poll
    borrow,       \* who holds the engine borrow taken by Stack::with (NoTask: free)
    cpu,          \* the call of with_socket in progress, if any
    panicked,     \* "none", or the panic that ended the program
    stale         \* the buffers the engine accessed after their socket's drop

vars == <<sockets, tasks, woken, borrow, cpu, panicked, stale>>

IdleCpu == [task |-> NoTask, pc |-> "idle", op |-> "none", arg |-> NoArg,
            retry |-> FALSE, res |-> NoRes, eng |-> NoEng, wakes |-> 0,
            pre |-> FreeRow]

NoFuture == [op |-> "none", arg |-> NoArg]

Init ==
    /\ sockets = [h \in Handles |-> FreeRow]
    /\ tasks = [t \in Tasks |-> [alive |-> FALSE, handle |-> NoHandle, fut |-> NoFuture]]
    /\ woken = [t \in Tasks |-> FALSE]
    /\ borrow = NoTask
    /\ cpu = IdleCpu
    /\ panicked = "none"
    /\ stale = {}

\* The executor is free to run a task: no call is in progress.
CanRun == cpu.task = NoTask /\ panicked = "none"

\* Waker::wake on each task of ts: a task with a future in flight is
\* scheduled for a poll.
WakeTasks(w, ts) == [t \in Tasks |-> w[t] \/ (t \in ts /\ tasks[t].fut.op # "none")]

\* Of the buffers bs the engine accesses, those whose UdpSocket is gone.
Dead(bs) == {b \in bs : ~tasks[b].alive}

\* iface.add_socket: the first free row of the table.
add_socket_handle == CHOOSE h \in Handles : ~sockets[h].used /\
                        \A g \in Handles : g < h => sockets[g].used

\* ------------------------------------------------------ UdpSocket::new, drop
New(t) ==
    /\ CanRun
    /\ ~tasks[t].alive
    /\ IF borrow # NoTask
       THEN /\ panicked' = "BorrowMutError"
            /\ UNCHANGED <<sockets, tasks, woken, borrow, cpu, stale>>
       ELSE /\ sockets' = [sockets EXCEPT ![add_socket_handle] = SyncUdpSocket_new(t)]
            /\ tasks' = [tasks EXCEPT ![t] = [alive |-> TRUE, handle |-> add_socket_handle,
                                              fut |-> NoFuture]]
            /\ UNCHANGED <<woken, borrow, cpu, panicked, stale>>

\* A drop that leaves the row in the table.
remove_socket_Leak(tbl, h) == tbl

\* iface.remove_socket(handle)
remove_socket(tbl, h) == [tbl EXCEPT ![h] = FreeRow]

\* A socket value that goes away without its Drop running.
Drop_Forget(t) ==
    /\ CanRun
    /\ tasks[t].alive
    /\ tasks[t].fut.op = "none"
    /\ IF borrow # NoTask
       THEN /\ panicked' = "BorrowMutError"
            /\ UNCHANGED <<sockets, tasks, woken, borrow, cpu, stale>>
       ELSE /\ tasks' = [tasks EXCEPT ![t] = [alive |-> FALSE, handle |-> NoHandle,
                                              fut |-> NoFuture]]
            /\ UNCHANGED <<sockets, woken, borrow, cpu, panicked, stale>>

\* Drop: the row of self.handle is removed from the table under the borrow.
Drop(t) ==
    /\ CanRun
    /\ tasks[t].alive
    /\ tasks[t].fut.op = "none"
    /\ IF borrow # NoTask
       THEN /\ panicked' = "BorrowMutError"
            /\ UNCHANGED <<sockets, tasks, woken, borrow, cpu, stale>>
       ELSE /\ sockets' = remove_socket(sockets, tasks[t].handle)
            /\ tasks' = [tasks EXCEPT ![t] = [alive |-> FALSE, handle |-> NoHandle,
                                              fut |-> NoFuture]]
            /\ UNCHANGED <<woken, borrow, cpu, panicked, stale>>

\* with_socket looking up the first row of the table instead of self.handle.
with_socket_run_FirstRow(t, op, arg, retry) ==
    /\ CanRun
    /\ LET h == CHOOSE g \in Handles : sockets[g].used /\
                     \A f \in Handles : f < g => ~sockets[f].used
       IN IF borrow # NoTask
          THEN /\ panicked' = "BorrowMutError"
               /\ UNCHANGED <<sockets, woken, borrow, cpu, stale>>
          ELSE IF tasks[t].handle = NoHandle \/ ~sockets[h].used
          THEN /\ panicked' = "NoSocket"
               /\ UNCHANGED <<sockets, woken, borrow, cpu, stale>>
          ELSE LET out == Closure(op, sockets[h], t, arg)
               IN /\ borrow' = t
                  /\ sockets' = [sockets EXCEPT ![h] = out.s]
                  /\ woken' = [WakeTasks(woken, out.wake \ {t}) EXCEPT ![t] = FALSE]
                  /\ cpu' = [task |-> t, pc |-> "wake", op |-> op, arg |-> arg,
                             retry |-> retry, res |-> out.res, eng |-> out.eng,
                             wakes |-> 0, pre |-> sockets[h]]
                  /\ stale' = stale \cup Dead({sockets[h].buf})
                  /\ UNCHANGED panicked
    /\ UNCHANGED tasks

\* -------------------------------------------------------------- with_socket
\* Stack::with(|stack| { let (s, cx) = get_socket_and_context(handle);
\* f(s, cx) ...: the borrow is taken (a second borrow panics), the row is
\* looked up (a missing row panics) and the closure runs against it.
with_socket_run(t, op, arg, retry) ==
    /\ CanRun
    /\ LET h == tasks[t].handle
       IN IF borrow # NoTask
          THEN /\ panicked' = "BorrowMutError"
               /\ UNCHANGED <<sockets, woken, borrow, cpu, stale>>
          ELSE IF h = NoHandle \/ ~sockets[h].used
          THEN /\ panicked' = "NoSocket"
               /\ UNCHANGED <<sockets, woken, borrow, cpu, stale>>
          ELSE LET out == Closure(op, sockets[h], t, arg)
               IN /\ borrow' = t
                  /\ sockets' = [sockets EXCEPT ![h] = out.s]
                  /\ woken' = [WakeTasks(woken, out.wake \ {t}) EXCEPT ![t] = FALSE]
                  /\ cpu' = [task |-> t, pc |-> "wake", op |-> op, arg |-> arg,
                             retry |-> retry, res |-> out.res, eng |-> out.eng,
                             wakes |-> 0, pre |-> sockets[h]]
                  /\ stale' = stale \cup Dead({sockets[h].buf})
                  /\ UNCHANGED panicked
    /\ UNCHANGED tasks

\* with_socket notifying the driver only when the closure completed.
with_socket_wake_OnlyReady(t) ==
    /\ cpu.task = t /\ cpu.pc = "wake" /\ panicked = "none"
    /\ cpu' = [cpu EXCEPT !.pc = "exit",
                          !.wakes = IF cpu.res.poll = "Ready" THEN cpu.wakes + 1
                                    ELSE cpu.wakes]
    /\ UNCHANGED <<sockets, tasks, woken, borrow, panicked, stale>>

\* stack.wake(): one wake notification to the driver's poll task.
with_socket_wake(t) ==
    /\ cpu.task = t /\ cpu.pc = "wake" /\ panicked = "none"
    /\ cpu' = [cpu EXCEPT !.pc = "exit", !.wakes = cpu.wakes + 1]
    /\ UNCHANGED <<sockets, tasks, woken, borrow, panicked, stale>>

\* with_socket keeping the borrow when the closure's result is Pending.
with_socket_exit_HoldOnPending(t) ==
    /\ cpu.task = t /\ cpu.pc = "exit" /\ panicked = "none"
    /\ borrow' = IF cpu.res.poll = "Pending" THEN borrow ELSE NoTask
    /\ cpu' = IdleCpu
    /\ tasks' = [tasks EXCEPT ![t].fut =
                    IF cpu.res.poll = "Pending"
                    THEN [op |-> cpu.op, arg |-> cpu.arg]
                    ELSE NoFuture]
    /\ UNCHANGED <<sockets, woken, panicked, stale>>

\* with_socket returning with the borrow still held.
with_socket_exit_KeepBorrow(t) ==
    /\ cpu.task = t /\ cpu.pc = "exit" /\ panicked = "none"
    /\ cpu' = IdleCpu
    /\ tasks' = [tasks EXCEPT ![t].fut =
                    IF cpu.res.poll = "Pending"
                    THEN [op |-> cpu.op, arg |-> cpu.arg]
                    ELSE NoFuture]
    /\ UNCHANGED <<sockets, woken, borrow, panicked, stale>>

\* The closure given to Stack::with returns res: the borrow is released and
\* res handed to the caller; a future that got Pending stays suspended.
with_socket_exit(t) ==
    /\ cpu.task = t /\ cpu.pc = "exit" /\ panicked = "none"
    /\ borrow' = NoTask
    /\ cpu' = IdleCpu
    /\ tasks' = [tasks EXCEPT ![t].fut =
                    IF cpu.res.poll = "Pending"
                    THEN [op |-> cpu.op, arg |-> cpu.arg]
                    ELSE NoFuture]
    /\ UNCHANGED <<sockets, woken, panicked, stale>>

\* ------------------------------------------------------------ the operations
\* recv_slice(buf).await: the future is created and polled for the first time.
recv_slice(t, len) ==
    /\ tasks[t].alive /\ tasks[t].fut.op = "none"
    /\ with_socket_run(t, "recv", [NoArg EXCEPT !.buf = Zeros(len)], FALSE)

\* send_slice(buf, endpoint).await
send_slice(t, a) ==
    /\ tasks[t].alive /\ tasks[t].fut.op = "none"
    /\ with_socket_run(t, "send", [NoArg EXCEPT !.data = a.data, !.ep = a.ep], FALSE)

\* The executor polls a woken task again: poll_fn runs the closure from the top.
Repoll(t) ==
    /\ tasks[t].fut.op # "none" /\ woken[t]
    /\ with_socket_run(t, tasks[t].fut.op, tasks[t].fut.arg, TRUE)

bind(t, port) ==
    /\ tasks[t].alive /\ tasks[t].fut.op = "none"
    /\ with_socket_run(t, "bind", [NoArg EXCEPT !.ep = port], FALSE)

close(t) ==
    /\ tasks[t].alive /\ tasks[t].fut.op = "none"
    /\ with_socket_run(t, "close", NoArg, FALSE)

is_open_call(t) ==
    /\ tasks[t].alive /\ tasks[t].fut.op = "none"
    /\ with_socket_run(t, "is_open", NoArg, FALSE)

\* The awaiting task discards a suspended future (for instance a timeout won).
Cancel(t) ==
    /\ CanRun
    /\ tasks[t].fut.op # "none"
    /\ tasks' = [tasks EXCEPT ![t].fut = NoFuture]
    /\ woken' = [woken EXCEPT ![t] = FALSE]
    /\ UNCHANGED <<sockets, borrow, cpu, panicked, stale>>

\* A suspended task is woken by something else it also waits for.
SpuriousWake(t) ==
    /\ CanRun
    /\ tasks[t].fut.op # "none" /\ ~woken[t]
    /\ woken' = [woken EXCEPT ![t] = TRUE]
    /\ UNCHANGED <<sockets, tasks, borrow, cpu, panicked, stale>>

\* ------------------------------------------------------------------ driver
\* The stack's poll, under Stack::with: the engine takes a datagram in for a
\* bound socket with room and wakes its receive waker.
DriverIngress(h, rec) ==
    /\ CanRun
    /\ sockets[h].used /\ sockets[h].endpoint # 0
    /\ Len(sockets[h].rx) < sockets[h].rxcap
    \* input bound: a record the engine cannot hand out arrives at an empty
    \* queue only; the closures see no more of the queue than its head
    /\ rec.bad => sockets[h].rx = <<>>
    /\ IF borrow # NoTask
       THEN /\ panicked' = "BorrowMutError"
            /\ UNCHANGED <<sockets, woken, stale>>
       ELSE /\ sockets' = [sockets EXCEPT ![h].rx = Append(@, rec), ![h].rx_waker = NoTask]
            /\ woken' = WakeTasks(woken, {sockets[h].rx_waker} \ {NoTask})
            /\ stale' = stale \cup Dead({sockets[h].buf})
            /\ UNCHANGED panicked
    /\ UNCHANGED <<tasks, borrow, cpu>>

\* The engine sends the head of a socket's transmit queue out and wakes its
\* send waker.
DriverEgress(h) ==
    /\ CanRun
    /\ sockets[h].used /\ sockets[h].tx # <<>>
    /\ IF borrow # NoTask
       THEN /\ panicked' = "BorrowMutError"
            /\ UNCHANGED <<sockets, woken, stale>>
       ELSE /\ sockets' = [sockets EXCEPT ![h].tx = Tail(@), ![h].tx_waker = NoTask]
            /\ woken' = WakeTasks(woken, {sockets[h].tx_waker} \ {NoTask})
            /\ stale' = stale \cup Dead({sockets[h].buf})
            /\ UNCHANGED panicked
    /\ UNCHANGED <<tasks, borrow, cpu>>

Next ==
    \/ \E t \in Tasks : New(t)
    \/ \E t \in Tasks : Drop(t)
    \/ \E t \in Tasks : \E len \in BufLens(t) : recv_slice(t, len)
    \/ \E t \in Tasks : \E a \in SendArgs(t) : send_slice(t, a)
    \/ \E t \in Tasks : Repoll(t)
    \/ \E t \in Tasks, port \in BindPorts : bind(t, port)
    \/ \E t \in Tasks : close(t)
    \/ \E t \in Tasks : is_open_call(t)
    \/ \E t \in Tasks : with_socket_wake(t)
    \/ \E t \in Tasks : with_socket_exit(t)
    \/ \E t \in Tasks : Cancel(t)
    \/ \E t \in Tasks : SpuriousWake(t)
    \/ \E h \in Handles, rec \in RxRecords : DriverIngress(h, rec)
    \/ \E h \in Handles : DriverEgress(h)

Spec == Init /\ [][Next]_vars

\* ------------------------------------------------------------------ helpers
\* A call of with_socket for operation op has run its closure and not yet
\* returned.
Ran(op) == cpu.task # NoTask /\ cpu.op = op /\ cpu.pc \in {"wake", "exit"}
\* The row of the socket the call in progress works on, as it is now.
CallRow == sockets[tasks[cpu.task].handle]
\* Task t has a future of operation op that is not being polled.
Suspended(t, op) == tasks[t].fut.op = op /\ cpu.task # t
\* The row of task t's socket.
RowOf(t) == sockets[tasks[t].handle]

\* ------------------------------------------------------------------- claims
\* C1: no missed wakeup.  Whenever a step queues a datagram on the socket of a
\* task suspended in recv_slice, or frees transmit space on the socket of a
\* task suspended in send_slice, that task is woken in (or still woken after)
\* that step; a spurious wake and re-suspension in between changes nothing.
NoMissedWakeup ==
    [][\A t \in Tasks :
          /\ (Suspended(t, "recv") /\ tasks'[t].fut.op = "recv"
                /\ Len(sockets'[tasks[t].handle].rx) > Len(RowOf(t).rx))
             => woken'[t]
          /\ (Suspended(t, "send") /\ tasks'[t].fut.op = "send"
                /\ Len(sockets'[tasks[t].handle].tx) < Len(RowOf(t).tx))
             => woken'[t]]_vars

\* A task suspended in recv_slice has been woken by the arrival of a
\* datagram: the receive waker slot was taken and the datagram is queued.
NoMissedWakeupWitness ==
    \E t \in Tasks :
        /\ Suspended(t, "recv") /\ woken[t]
        /\ RowOf(t).rx # <<>> /\ ~Head(RowOf(t).rx).bad
        /\ RowOf(t).rx_waker = NoTask

\* C2: buffer safety.  The engine never accessed the buffers of a dropped
\* socket, and every row of the socket table is built over the buffers of a
\* UdpSocket that is alive and holds that row's handle.
BufferSafety ==
    /\ stale = {}
    /\ \A h \in Handles :
          sockets[h].used =>
             /\ tasks[sockets[h].buf].alive
             /\ tasks[sockets[h].buf].handle = h

\* One socket has been dropped (the other got row 1 while it held row 0) and
\* the engine has since run a closure on the other socket's row.
BufferSafetyWitness ==
    \E t, u \in Tasks :
        /\ ~tasks[t].alive /\ tasks[u].alive /\ tasks[u].handle = 1
        /\ cpu.task = u /\ cpu.pc = "wake"
        /\ ~sockets[0].used

\* C3: mutual exclusion.  No second borrow of the engine is ever attempted
\* while one is held, the borrow is held by exactly the call in progress, and
\* a closure that has run ran under its caller's borrow.
MutualExclusion ==
    /\ panicked # "BorrowMutError"
    /\ borrow = cpu.task
    /\ (cpu.task # NoTask => cpu.pc \in {"wake", "exit"})

\* An Attempt of one socket runs while a future of the other socket is
\* suspended between two of its Attempts.
MutualExclusionWitness ==
    \E t, u \in Tasks :
        /\ t # u /\ cpu.task = t /\ borrow = t /\ cpu.op \in {"recv", "send"}
        /\ tasks[u].fut.op # "none"

\* C4: send full-buffer retry.  A send_slice Attempt the engine rejects as
\* Exhausted returns Pending with the task's waker in the send-waker slot; a
\* re-Attempt that finds the room the datagram needs enqueues it and
\* completes with Ok(()).
SendRetry ==
    Ran("send") =>
        /\ cpu.eng.err = "Exhausted" =>
              /\ cpu.res = Pending
              /\ CallRow.tx_waker = cpu.task
              /\ CallRow.tx = cpu.pre.tx
        /\ (cpu.retry /\ Len(cpu.pre.tx) < cpu.pre.txcap
              /\ cpu.pre.txpay - SumLen(cpu.pre.tx) >= Len(cpu.arg.data)) =>
              /\ cpu.res.poll = "Ready" /\ cpu.res.ok
              /\ CallRow.tx = Append(cpu.pre.tx, [data |-> cpu.arg.data, ep |-> cpu.arg.ep])

\* A re-Attempt of send_slice, made after the engine drained the transmit
\* queue, has completed with Ok(()).
SendRetryWitness ==
    /\ Ran("send") /\ cpu.retry /\ cpu.pre.tx = <<>>
    /\ cpu.res.poll = "Ready" /\ cpu.res.ok

\* C5: send error propagation.  A send_slice Attempt the engine rejects with
\* an error other than Exhausted completes with exactly that error, enqueues
\* nothing and leaves the send-waker slot as it was.
SendErrorPropagation ==
    (Ran("send") /\ ~cpu.eng.ok /\ cpu.eng.err # "Exhausted") =>
        /\ cpu.res.poll = "Ready" /\ ~cpu.res.ok /\ cpu.res.err = cpu.eng.err
        /\ CallRow.tx_waker = cpu.pre.tx_waker
        /\ CallRow.tx = cpu.pre.tx

\* send_slice on a socket that is not bound completed with Unaddressable.
SendErrorPropagationWitness ==
    /\ Ran("send") /\ cpu.pre.endpoint = 0
    /\ cpu.res.poll = "Ready" /\ cpu.res.err = "Unaddressable"

\* C6: receive never fails and never completes empty.  A recv_slice Attempt
\* that finds no datagram to consume returns Pending with the task's waker in
\* the receive-waker slot; an Attempt that completes returns the byte count
\* and source endpoint of the datagram that was at the head of the queue.
RecvOnlySucceeds ==
    Ran("recv") =>
        /\ (cpu.pre.rx = <<>> \/ Head(cpu.pre.rx).bad) =>
              /\ cpu.res = Pending
              /\ CallRow.rx_waker = cpu.task
        /\ cpu.res.poll = "Ready" =>
              /\ cpu.res.ok
              /\ cpu.pre.rx # <<>> /\ Head(cpu.pre.rx) \in Datagrams
              /\ cpu.res.ep = Head(cpu.pre.rx).ep
              /\ cpu.res.n = Min(Len(cpu.arg.buf), Len(Head(cpu.pre.rx).data))
              /\ cpu.res.n > 0

\* A first recv_slice Attempt on an empty queue has suspended.
RecvOnlySucceedsWitness ==
    /\ Ran("recv") /\ ~cpu.retry /\ cpu.pre.rx = <<>>
    /\ cpu.res = Pending /\ CallRow.rx_waker = cpu.task

\* C7: error propagation policy.  In every call of recv_slice, send_slice and
\* bind, an error the engine reports, other than Exhausted, is the result the
\* call returns to its caller.
ErrorPropagationPolicy ==
    \A op \in {"recv", "send", "bind"} :
        (Ran(op) /\ ~cpu.eng.ok /\ cpu.eng.err \notin {"notcalled", "Exhausted"}) =>
            /\ cpu.res.poll = "Ready" /\ ~cpu.res.ok /\ cpu.res.err = cpu.eng.err

\* C8: Exhausted is internal only.  No completion of send_slice carries the
\* Exhausted error.
ExhaustedNeverSurfaces ==
    (Ran("send") /\ cpu.res.poll = "Ready") => cpu.res.err # "Exhausted"

\* The engine rejected a first send_slice Attempt as Exhausted and the
\* Attempt suspended.
ExhaustedNeverSurfacesWitness ==
    /\ Ran("send") /\ ~cpu.retry /\ cpu.eng.err = "Exhausted"
    /\ cpu.res.poll = "Pending"

\* C9: receive copy correctness.  A recv_slice Attempt that finds a datagram
\* of n bytes from endpoint E at the head of the queue, with an output buffer
\* of at least n bytes, returns (n, E), leaves the payload in the first n
\* bytes of the buffer and takes the datagram off the queue.
RecvCopyCorrect ==
    (Ran("recv") /\ cpu.pre.rx # <<>> /\ Head(cpu.pre.rx) \in Datagrams
       /\ Len(cpu.arg.buf) >= Len(Head(cpu.pre.rx).data)) =>
        LET d == Head(cpu.pre.rx)
        IN /\ cpu.res.poll = "Ready" /\ cpu.res.ok
           /\ cpu.res.n = Len(d.data) /\ cpu.res.ep = d.ep
           /\ SubSeq(cpu.res.buf, 1, cpu.res.n) = d.data
           /\ Len(cpu.res.buf) = Len(cpu.arg.buf)
           /\ CallRow.rx = Tail(cpu.pre.rx)

\* recv_slice with a two-byte buffer returned a one-byte datagram that was
\* queued ahead of another.
RecvCopyCorrectWitness ==
    /\ Ran("recv") /\ Len(cpu.pre.rx) = 2 /\ Head(cpu.pre.rx) \in Datagrams
    /\ Len(Head(cpu.pre.rx).data) = 1 /\ Len(cpu.arg.buf) = 2
    /\ cpu.res.poll = "Ready" /\ cpu.res.n = 1

\* C10: driver wake after every Attempt.  In every recv_slice or send_slice
\* Attempt the wake notification is issued with the closure's result in hand
\* and the borrow still held, and the borrow is released with exactly one
\* notification issued.
WakeAfterAttempt ==
    [][cpu.op \in {"recv", "send"} =>
          /\ (cpu'.task = cpu.task /\ cpu'.wakes # cpu.wakes) =>
                /\ cpu.res.poll \in {"Pending", "Ready"}
                /\ borrow = cpu.task /\ borrow' = cpu.task
          /\ (borrow = cpu.task /\ borrow' = NoTask) => cpu.wakes = 1]_vars

\* A suspended Attempt is about to release the borrow, its one wake issued.
WakeAfterAttemptWitness ==
    /\ cpu.op \in {"recv", "send"} /\ cpu.pc = "exit"
    /\ cpu.res.poll = "Pending" /\ cpu.wakes = 1 /\ borrow = cpu.task

\* C11: re-entrant Attempt safety.  A recv_slice or send_slice Attempt that
\* ends in suspension leaves the queues and the bound endpoint as it found
\* them and the future's arguments as the caller gave them, so that running
\* the closure again from the top on the state it left gives the same
\* outcome and changes nothing; and a re-Attempt that finds its own waker
\* still registered, that is an engine state no datagram has moved in since,
\* suspends again and leaves the row as it found it.
ReentrantAttempt ==
    /\ \A op \in {"recv", "send"} :
          (Ran(op) /\ cpu.res.poll = "Pending") =>
             /\ CallRow.rx = cpu.pre.rx /\ CallRow.tx = cpu.pre.tx
             /\ CallRow.endpoint = cpu.pre.endpoint
             /\ LET again == Closure(op, CallRow, cpu.task, cpu.arg)
                IN again.res = cpu.res /\ again.eng = cpu.eng /\ again.s = CallRow
    /\ (Ran("recv") /\ cpu.retry /\ cpu.pre.rx_waker = cpu.task) =>
          cpu.res.poll = "Pending" /\ CallRow = cpu.pre
    /\ (Ran("send") /\ cpu.retry /\ cpu.pre.tx_waker = cpu.task) =>
          cpu.res.poll = "Pending" /\ CallRow = cpu.pre
    /\ \A t \in Tasks :
          /\ tasks[t].fut.op = "recv" =>
                tasks[t].fut.arg.buf = Zeros(Len(tasks[t].fut.arg.buf))
          /\ tasks[t].fut.op = "send" =>
                [data |-> tasks[t].fut.arg.data, ep |-> tasks[t].fut.arg.ep]
                    \in SendArgs(t)

\* A suspended send_slice was polled again with its waker still registered
\* and a full transmit queue, and suspended again.
ReentrantAttemptWitness ==
    /\ Ran("send") /\ cpu.retry /\ cpu.res.poll = "Pending"
    /\ cpu.pre.tx_waker = cpu.task /\ cpu.pre.tx # <<>>

\* C12: idempotent close.  close completes without a failure whatever the
\* socket's state, an already closed socket included; the socket it leaves is
\* closed, so that is_open() asked of it answers false; and is_open()
\* answers what the engine holds and changes nothing.
IdempotentClose ==
    /\ Ran("close") =>
          /\ cpu.res.poll = "Ready" /\ cpu.res.ok
          /\ ~is_open(CallRow)
          /\ ~is_open_closure(CallRow).res.ok
          /\ (~is_open(cpu.pre) => CallRow.endpoint = cpu.pre.endpoint)
    /\ Ran("is_open") =>
          /\ cpu.res.poll = "Ready"
          /\ cpu.res.ok = (cpu.pre.endpoint # 0)
          /\ CallRow = cpu.pre
    /\ panicked = "none"

\* close ran on a socket that was already closed and had a waker left in a
\* slot by a discarded future.
IdempotentCloseWitness ==
    /\ Ran("close") /\ ~is_open(cpu.pre)
    /\ cpu.pre.rx_waker = cpu.task /\ cpu.res.ok

\* C13: cancellation safety.  When a suspended recv_slice or send_slice
\* future is discarded the engine borrow is free before and after, and the
\* table, the queues and the waker slots are as they were: what is left is
\* at most the discarded future's waker in its slot.  A task without a
\* future in flight is never marked woken, so waking that waker resumes
\* nothing; and the first Attempt of a later operation that finds the
\* discarded waker in the slot and suspends leaves its own waker there.
CancellationSafety ==
    [][/\ \A t \in Tasks :
             (tasks[t].fut.op # "none" /\ tasks'[t].fut.op = "none"
                 /\ cpu.task = NoTask /\ cpu'.task = NoTask) =>
                /\ borrow = NoTask /\ borrow' = NoTask
                /\ sockets' = sockets
                /\ panicked' = panicked
                /\ ~woken'[t]
       /\ \A t \in Tasks : (tasks'[t].fut.op = "none" /\ cpu'.task # t) => ~woken'[t]
       /\ (cpu'.task # NoTask /\ cpu.task = NoTask /\ ~cpu'.retry
             /\ cpu'.res.poll = "Pending") =>
               /\ cpu'.op = "recv" => sockets'[tasks[cpu'.task].handle].rx_waker = cpu'.task
               /\ cpu'.op = "send" => sockets'[tasks[cpu'.task].handle].tx_waker = cpu'.task
      ]_vars

\* A new recv_slice suspended on a socket whose receive slot held the waker
\* of a discarded future.
CancellationSafetyWitness ==
    /\ Ran("recv") /\ ~cpu.retry /\ cpu.res.poll = "Pending"
    /\ cpu.pre.rx_waker = cpu.task /\ CallRow.rx_waker = cpu.task
    /\ is_open(cpu.pre)

\* C14: one waker slot per direction.  Every slot holds one waker or none; a
\* recv_slice Attempt that suspends leaves the current task's waker in the
\* receive slot, whatever was there, and the send slot as it was, and a
\* send_slice Attempt that suspends does the same with the directions
\* exchanged.
SingleWakerSlot ==
    /\ \A h \in Handles :
          /\ sockets[h].rx_waker \in Tasks \cup {NoTask}
          /\ sockets[h].tx_waker \in Tasks \cup {NoTask}
    /\ (Ran("recv") /\ cpu.res.poll = "Pending") =>
          CallRow.rx_waker = cpu.task /\ CallRow.tx_waker = cpu.pre.tx_waker
    /\ (Ran("send") /\ cpu.res.poll = "Pending") =>
          CallRow.tx_waker = cpu.task /\ CallRow.rx_waker = cpu.pre.rx_waker

\* recv_slice suspended on a socket both of whose slots held a waker left by
\* discarded futures.
SingleWakerSlotWitness ==
    /\ Ran("recv") /\ cpu.res.poll = "Pending" /\ ~cpu.retry
    /\ cpu.pre.tx_waker = cpu.task /\ cpu.pre.rx_waker = cpu.task
    /\ CallRow.tx_waker = cpu.task /\ CallRow.rx_waker = cpu.task

\* C15: the engine borrow is never held across a suspension point.  A task
\* whose recv_slice or send_slice future is suspended, or that discarded one
\* and left its waker in a slot, does not hold the borrow; with no call in
\* progress the borrow is free, and a call of another socket that runs
\* meanwhile holds it, so that no acquisition ever fails.
BorrowFreeWhileSuspended ==
    /\ \A t \in Tasks :
          (cpu.task # t /\ tasks[t].alive
              /\ (tasks[t].fut.op \in {"recv", "send"}
                     \/ RowOf(t).rx_waker = t \/ RowOf(t).tx_waker = t)) =>
             /\ borrow # t
             /\ cpu.task = NoTask => borrow = NoTask
             /\ cpu.task # NoTask => borrow = cpu.task
    /\ panicked # "BorrowMutError"

\* is_open of one socket runs under the borrow while a recv_slice future of
\* the other socket is suspended.
BorrowFreeWhileSuspendedWitness ==
    \E t \in Tasks :
       /\ tasks[t].fut.op = "recv" /\ cpu.task \notin {t, NoTask}
       /\ cpu.op = "is_open" /\ borrow = cpu.task

\* C16: a receive error is turned into a suspension.  When can_recv() is true
\* and the engine's receive fails, the Attempt registers the receive waker
\* and suspends with the queue untouched; as long as the datagram at the
\* head is one the engine cannot hand out, every Attempt, first or repeated,
\* suspends, so that the operation does not complete.
RecvErrorSuspends ==
    /\ (Ran("recv") /\ can_recv(cpu.pre) /\ ~cpu.eng.ok) =>
          /\ cpu.res.poll = "Pending"
          /\ CallRow.rx_waker = cpu.task
          /\ CallRow.rx = cpu.pre.rx
    /\ (Ran("recv") /\ cpu.pre.rx # <<>> /\ Head(cpu.pre.rx).bad) =>
          /\ cpu.eng = EngErr("Malformed")
          /\ cpu.res.poll = "Pending"
          /\ CallRow.rx # <<>> /\ Head(CallRow.rx).bad

\* A recv_slice future was polled again with the failing datagram still at
\* the head of the queue, and suspended again.
RecvErrorSuspendsWitness ==
    /\ Ran("recv") /\ cpu.retry /\ can_recv(cpu.pre)
    /\ cpu.eng = EngErr("Malformed") /\ cpu.res.poll = "Pending"

\* C17: registration lifecycle.  The handles present in the table are exactly
\* the handles of the live sockets, no two live sockets share a handle and
\* no call of a live socket finds its row missing; new adds exactly one row,
\* at a handle that was free, drop removes exactly the row of its handle,
\* and every other step leaves the set of rows as it was.
RegistrationLifecycle ==
    /\ [](/\ {h \in Handles : sockets[h].used} =
                {tasks[t].handle : t \in {u \in Tasks : tasks[u].alive}}
          /\ \A t, u \in Tasks :
                (t # u /\ tasks[t].alive /\ tasks[u].alive) =>
                   tasks[t].handle # tasks[u].handle
          /\ \A t \in Tasks : ~tasks[t].alive => tasks[t].handle = NoHandle
          /\ panicked # "NoSocket")
    /\ [][/\ \A t \in Tasks :
                (~tasks[t].alive /\ tasks'[t].alive) =>
                   /\ tasks'[t].handle \in Handles
                   /\ ~sockets[tasks'[t].handle].used
                   /\ {h \in Handles : sockets'[h].used} =
                         {h \in Handles : sockets[h].used} \cup {tasks'[t].handle}
                   /\ \A h \in Handles \ {tasks'[t].handle} : sockets'[h] = sockets[h]
          /\ \A t \in Tasks :
                (tasks[t].alive /\ ~tasks'[t].alive) =>
                   /\ sockets[tasks[t].handle].used
                   /\ {h \in Handles : sockets'[h].used} =
                         {h \in Handles : sockets[h].used} \ {tasks[t].handle}
                   /\ \A h \in Handles \ {tasks[t].handle} : sockets'[h] = sockets[h]
          /\ (\A t \in Tasks : tasks'[t].alive = tasks[t].alive) =>
                /\ {h \in Handles : sockets'[h].used} = {h \in Handles : sockets[h].used}
                /\ \A t \in Tasks : tasks'[t].handle = tasks[t].handle
         ]_vars

\* The socket that held handle 0 was dropped while the other stayed, and a
\* call of the other runs.
RegistrationLifecycleWitness ==
    /\ ~sockets[0].used /\ sockets[1].used
    /\ cpu.task # NoTask /\ tasks[cpu.task].handle = 1
    /\ cpu.op = "is_open" /\ cpu.pc = "exit"

\* C18: exactly-once queue effect.  A recv_slice Attempt that completes
\* removes the datagram at the head of the receive queue, which is the one
\* it returns, and nothing else; one that suspends removes nothing.  A
\* send_slice Attempt that returns Ok appends its datagram to the transmit
\* queue once; one that suspends or returns an error appends nothing.
\* Neither touches the queue of the other direction.
ExactlyOnce ==
    /\ Ran("recv") =>
          /\ CallRow.tx = cpu.pre.tx
          /\ IF cpu.res.poll = "Ready"
             THEN /\ cpu.pre.rx # <<>>
                  /\ CallRow.rx = Tail(cpu.pre.rx)
                  /\ cpu.res.ep = Head(cpu.pre.rx).ep
                  /\ cpu.res.n = Min(Len(Head(cpu.pre.rx).data), Len(cpu.arg.buf))
             ELSE CallRow.rx = cpu.pre.rx
    /\ Ran("send") =>
          /\ CallRow.rx = cpu.pre.rx
          /\ IF cpu.res.poll = "Ready" /\ cpu.res.ok
             THEN CallRow.tx = Append(cpu.pre.tx, [data |-> cpu.arg.data, ep |-> cpu.arg.ep])
             ELSE CallRow.tx = cpu.pre.tx

\* send_slice returned Ok on a socket that had a datagram queued for
\* transmission and two in its receive queue.
ExactlyOnceWitness ==
    /\ Ran("send") /\ cpu.res.poll = "Ready" /\ cpu.res.ok
    /\ Len(cpu.pre.tx) = 1 /\ Len(CallRow.tx) = 2 /\ Len(CallRow.rx) = 2

\* C19: per-socket frame.  A call entering with_socket on one socket changes
\* only that socket's row, and of it neither its place in the table nor its
\* buffers: the rows of all other sockets and every socket value are as
\* they were; the wake and the return of the call change no row at all.
PerSocketFrame ==
    [][/\ (cpu.task = NoTask /\ cpu'.task # NoTask) =>
             LET h == tasks[cpu'.task].handle
             IN /\ tasks' = tasks
                /\ \A g \in Handles \ {h} : sockets'[g] = sockets[g]
                /\ sockets'[h].used = sockets[h].used
                /\ sockets'[h].buf = sockets[h].buf
                /\ sockets'[h].rxcap = sockets[h].rxcap
                /\ sockets'[h].txcap = sockets[h].txcap
                /\ sockets'[h].txpay = sockets[h].txpay
                /\ cpu'.pre = sockets[h]
       /\ cpu.task # NoTask => sockets' = sockets
      ]_vars

\* close runs on one socket while the other has a datagram queued and a
\* suspended send_slice with its waker registered.
PerSocketFrameWitness ==
    \E t \in Tasks :
       /\ cpu.task \notin {t, NoTask} /\ cpu.op = "close" /\ is_open(cpu.pre)
       /\ tasks[t].fut.op = "send" /\ RowOf(t).tx_waker = t
       /\ RowOf(t).rx # <<>>

====
